---- MODULE Spec2Model ----
(***************************************************************************)
(* Model of python/rrsg_cgreco/recon.py: the driver of the CG-SENSE        *)
(* reconstruction (read_data, setup_parameter_dict, _decor_noise,          *)
(* _run_reco, save_to_file).                                               *)
(*                                                                         *)
(* numpy arrays are records [shape, val]: shape is the tuple of extents,   *)
(* val maps every 1-based index tuple to a scalar.  Python strings are     *)
(* sequences of one-character strings so that lower(), "in" and str() are  *)
(* computed.  Python exceptions end the run in pc = "error" with the       *)
(* exception's class in error.                                             *)
(***************************************************************************)
EXTENDS Integers, Sequences, FiniteSets, TLC

\* ---------------------------------------------------------------- bounds
MaxCoils == 2
MaxProj == 3
MaxReads == 2
NumComponents == 2

\* ------------------------------------------------------------- constants
\* Spoke counts kept for the "heart" data set (recon.py:176-183).
HeartSpokes2 == 33
HeartSpokes3 == 22
HeartSpokes4 == 11

\* Python's None and IEEE nan, as records of their own so that they compare
\* (unequal) with arrays and numbers.
None == [none |-> TRUE]
NaN == [nan |-> TRUE]
Inf == [inf |-> TRUE]
NoError == "none"

\* ------------------------------------------------------- python built-ins
Min(a, b) == IF a < b THEN a ELSE b
Abs(x) == IF x < 0 THEN -x ELSE x

Reverse(s) == [i \in 1..Len(s) |-> s[Len(s) + 1 - i]]

\* seq.count(e) and seq.index(e) + 1
Count(seq, e) == Cardinality({i \in 1..Len(seq) : seq[i] = e})
Position(seq, e) == CHOOSE i \in 1..Len(seq) : seq[i] = e

UpperChars == <<"A","B","C","D","E","F","G","H","I","J","K","L","M",
                "N","O","P","Q","R","S","T","U","V","W","X","Y","Z">>
LowerChars == <<"a","b","c","d","e","f","g","h","i","j","k","l","m",
                "n","o","p","q","r","s","t","u","v","w","x","y","z">>

\* str.lower(): every cased character mapped to lower case.
LowerChar(c) ==
    IF \E i \in 1..26 : UpperChars[i] = c
    THEN LowerChars[CHOOSE i \in 1..26 : UpperChars[i] = c]
    ELSE c
Lower(s) == [i \in 1..Len(s) |-> LowerChar(s[i])]

\* sub in s
Contains(s, sub) ==
    \E i \in 0..(Len(s) - Len(sub)) :
        \A j \in 1..Len(sub) : s[i + j] = sub[j]

Digits == <<"0","1","2","3","4","5","6","7","8","9">>

\* str(n) for an int n >= 0.
RECURSIVE StrNat(_)
StrNat(n) ==
    IF n < 10 THEN <<Digits[n + 1]>>
    ELSE StrNat(n \div 10) \o <<Digits[(n % 10) + 1]>>
StrInt(n) == IF n < 0 THEN <<"-">> \o StrNat(-n) ELSE StrNat(n)

\* str(b) of a bool, and of a str (itself).
StrBool(b) == IF b THEN <<"T","r","u","e">> ELSE <<"F","a","l","s","e">>

\* ---------------------------------------------------------- numpy arrays
RECURSIVE IndexSet(_)
IndexSet(shape) ==
    IF shape = <<>> THEN {<<>>}
    ELSE {<<i>> \o t : i \in 1..Head(shape), t \in IndexSet(Tail(shape))}

NewArray(shape, f(_)) == [shape |-> shape, val |-> [idx \in IndexSet(shape) |-> f(idx)]]

\* a.T: the axes reversed.
Transpose(a) ==
    LET sh == Reverse(a.shape)
    IN  [shape |-> sh, val |-> [idx \in IndexSet(sh) |-> a.val[Reverse(idx)]]]

\* The index of the unsqueezed array that idx of the squeezed one stands for.
RECURSIVE Unsqueeze(_, _)
Unsqueeze(shape, idx) ==
    IF shape = <<>> THEN <<>>
    ELSE IF Head(shape) = 1 THEN <<1>> \o Unsqueeze(Tail(shape), idx)
    ELSE <<Head(idx)>> \o Unsqueeze(Tail(shape), Tail(idx))

\* np.squeeze(a): every axis of extent 1 removed.
Squeeze(a) ==
    LET sh == SelectSeq(a.shape, LAMBDA n : n # 1)
    IN  [shape |-> sh,
         val |-> [idx \in IndexSet(sh) |-> a.val[Unsqueeze(a.shape, idx)]]]

\* a[:, :, ::step] and a[:, :, ::step, :]: every step-th entry of the third axis.
SliceStep(a, step) ==
    LET sh == [a.shape EXCEPT ![3] = (a.shape[3] + step - 1) \div step]
    IN  [shape |-> sh,
         val |-> [idx \in IndexSet(sh) |->
                     a.val[[idx EXCEPT ![3] = (idx[3] - 1) * step + 1]]]]

\* a[:, :, :stop] and a[:, :, :stop, :]: the first stop entries of the third axis.
SliceStop(a, stop) ==
    LET sh == [a.shape EXCEPT ![3] = Min(a.shape[3], stop)]
    IN  [shape |-> sh, val |-> [idx \in IndexSet(sh) |-> a.val[idx]]]

\* np.max(np.abs(a))
MaxOfSet(S) ==
    IF S = {} THEN 0
    ELSE LET x == CHOOSE y \in S : \A z \in S : z <= y IN x
MaxAbs(a) == MaxOfSet({Abs(a.val[idx]) : idx \in DOMAIN a.val})

\* x / d in floating point, kept exact as the fraction [num, den]; 0 / 0 is
\* nan (numpy warns and stores nan, it does not raise).
Divide(x, d) ==
    IF d = 0 THEN (IF x = 0 THEN NaN ELSE Inf)
    ELSE [num |-> x, den |-> d]

\* ------------------------------------------------------------ os.path
Sep == "/"

RECURSIVE SplitPath(_)
SplitPath(s) ==
    IF \A i \in 1..Len(s) : s[i] # Sep THEN <<s>>
    ELSE LET i == CHOOSE j \in 1..Len(s) :
                      s[j] = Sep /\ \A l \in 1..(j - 1) : s[l] # Sep
         IN  <<SubSeq(s, 1, i - 1)>> \o SplitPath(SubSeq(s, i + 1, Len(s)))

\* The components that remain: "" and "." dropped, ".." taking back the
\* component before it.
RECURSIVE Collapse(_, _, _)
Collapse(comps, acc, absolute) ==
    IF comps = <<>> THEN acc
    ELSE LET c == Head(comps)
             rest == Tail(comps)
         IN  IF c = <<>> \/ c = <<".">> THEN Collapse(rest, acc, absolute)
             ELSE IF c = <<".", ".">>
             THEN IF acc # <<>> /\ acc[Len(acc)] # <<".", ".">>
                  THEN Collapse(rest, SubSeq(acc, 1, Len(acc) - 1), absolute)
                  ELSE IF absolute THEN Collapse(rest, acc, absolute)
                  ELSE Collapse(rest, Append(acc, c), absolute)
             ELSE Collapse(rest, Append(acc, c), absolute)

RECURSIVE JoinPath(_)
JoinPath(comps) ==
    IF comps = <<>> THEN <<>>
    ELSE IF Len(comps) = 1 THEN Head(comps)
    ELSE Head(comps) \o <<Sep>> \o JoinPath(Tail(comps))

\* os.path.normpath(path) on a POSIX system.
normpath(path) ==
    LET absolute == path # <<>> /\ path[1] = Sep
        comps == Collapse(SplitPath(path), <<>>, absolute)
        joined == JoinPath(comps)
    IN  IF absolute THEN <<Sep>> \o joined
        ELSE IF joined = <<>> THEN <<".">>
        ELSE joined

Heart == <<"h","e","a","r","t">>
Brain == <<"b","r","a","i","n">>

\* ------------------------------------------------------------ the inputs
PathBrain == <<"b","r","a","i","n",".","h","5">>
PathHeart == <<"h","e","a","r","t",".","h","5">>
PathSub == <<".","/","d","/","/","h","e","a","r","t","_","a",".","h","5">>
PathUp == <<"h","e","a","r","t","/",".",".","/","p",".","h","5">>
Paths == {PathBrain, PathHeart, PathSub, PathUp}

\* --acc is parsed with type=int.
AccFactors == 0..5

TrajKinds == {"zero", "spokes"}
NoiseKinds == {"absent", "scan", "zeros", "other_coils"}

\* The content of a data file, by its extents and the pattern of its values:
\* rawdata is stored (1, reads, proj, coils), trajectory (components, reads,
\* proj), noise (coils, samples).  The files whose trajectory has other
\* extents than the raw data come with one pattern of values.
H5Files(variants) ==
    LET all == [exists : {TRUE},
                coils : 1..MaxCoils, proj : 1..MaxProj, reads : 1..MaxReads,
                tproj : 1..MaxProj, treads : 1..MaxReads,
                traj : TrajKinds, noise : NoiseKinds, variant : variants]
    IN  {f \in all : \/ f.tproj = f.proj /\ f.treads = f.reads
                     \/ f.traj = "spokes" /\ f.noise = "absent"}

\* A scan with one spoke more than the shortest "heart" selection keeps.
LongScan ==
    [exists |-> TRUE, coils |-> 2, proj |-> HeartSpokes4 + 1, reads |-> 2,
     tproj |-> HeartSpokes4 + 1, treads |-> 2, traj |-> "spokes",
     noise |-> "absent", variant |-> 0]

NoFile ==
    [exists |-> FALSE, coils |-> 1, proj |-> 1, reads |-> 1, tproj |-> 1,
     treads |-> 1, traj |-> "zero", noise |-> "absent", variant |-> 0]

\* A k-space sample as the code has built it: m the stored numbers it is a
\* linear combination of (one for a raw sample), white set by the noise
\* decorrelation, w the density weights it has been multiplied by.
Sample(m) == [m |-> <<m>>, white |-> FALSE, w |-> <<>>]

\* h5_dataset["rawdata"]: every sample of a file distinct, idx = (1, read, proj, coil).
FileRawdata(f) ==
    NewArray(<<1, f.reads, f.proj, f.coils>>,
             LAMBDA idx : Sample(10000 * f.variant + 1000 * idx[4] + 10 * idx[3] + idx[2]))

\* h5_dataset["trajectory"], idx = (component, read, proj), in arbitrary units.
FileTrajectory(f) ==
    NewArray(<<NumComponents, f.treads, f.tproj>>,
             LAMBDA idx : IF f.traj = "zero" THEN 0
                          ELSE IF idx[1] = 1 THEN idx[2] * idx[3]
                          ELSE -(idx[2] + idx[3]))

\* h5_dataset["noise"] when the key is present: its extents and whether the
\* scan is constant (then its covariance is the zero matrix).
FileNoise(f) ==
    IF f.noise = "absent" THEN None
    ELSE [shape |-> <<IF f.noise = "other_coils" THEN f.coils + 1 ELSE f.coils, 4>>,
          constant |-> (f.noise = "zeros")]

\* ------------------------------------------------------------- read_data
AllButLast(s) == SubSeq(s, 1, Len(s) - 1)
LastTwo(s) == IF Len(s) <= 2 THEN s ELSE SubSeq(s, Len(s) - 1, Len(s))

\* Faulty variant: the "heart" selection for 4 takes the count meant for 3.
SelectSpokesWrongCount(name, undesampling_factor, dataset) ==
    IF Contains(name, Heart)
    THEN IF undesampling_factor = 2 THEN SliceStop(dataset, HeartSpokes2)
         ELSE IF undesampling_factor = 3 THEN SliceStop(dataset, HeartSpokes3)
         ELSE IF undesampling_factor = 4 THEN SliceStop(dataset, HeartSpokes3)
         ELSE dataset
    ELSE SliceStep(dataset, undesampling_factor)

\* recon.py:174-191: the spokes kept of a dataset whose third axis is the
\* projection axis.
SelectSpokes(name, undesampling_factor, dataset) ==
    IF Contains(name, Heart)
    THEN IF undesampling_factor = 2 THEN SliceStop(dataset, HeartSpokes2)
         ELSE IF undesampling_factor = 3 THEN SliceStop(dataset, HeartSpokes3)
         ELSE IF undesampling_factor = 4 THEN SliceStop(dataset, HeartSpokes4)
         ELSE dataset
    ELSE SliceStep(dataset, undesampling_factor)

\* recon.py:201-208
NormalizeTrajectory(trajectory) ==
    LET norm_trajectory == 2 * MaxAbs(trajectory)
        scaled == [shape |-> trajectory.shape,
                   val |-> [idx \in DOMAIN trajectory.val |->
                               Divide(trajectory.val[idx], norm_trajectory)]]
    IN  Transpose(scaled)

ReadFailed(error, events) ==
    [error |-> error, rawdata |-> None, trajectory |-> None,
     noise_scan |-> None, events |-> events]

\* read_data(pathtofile, undesampling_factor) on the file h5 found at the path.
read_data(pathtofile, undesampling_factor, h5) ==
    IF ~h5.exists THEN ReadFailed("ValueError", <<>>)
    ELSE LET name == normpath(pathtofile)
         IN  IF ~Contains(name, Heart) /\ undesampling_factor = 0
             THEN ReadFailed("ValueError", <<"open_file">>)
             ELSE LET raw == SelectSpokes(name, undesampling_factor, FileRawdata(h5))
                      traj == SelectSpokes(name, undesampling_factor, FileTrajectory(h5))
                      rawdata == Squeeze(Transpose(raw))
                      trajectory == NormalizeTrajectory(traj)
                      done == <<"open_file", "select_spokes", "squeeze",
                                "normalize_trajectory", "check_shapes">>
                 IN  IF AllButLast(trajectory.shape) # LastTwo(rawdata.shape)
                     THEN ReadFailed("AssertionError", done)
                     ELSE [error |-> NoError, rawdata |-> rawdata,
                           trajectory |-> trajectory,
                           noise_scan |-> FileNoise(h5), events |-> done]
\* ------------------------------------------------------------ configparser
\* A value of the parameter dict read from the config file, with its Python type.
PyStr(v) == [t |-> "str", v |-> v]
PyInt(v) == [t |-> "int", v |-> v]
PyBool(v) == [t |-> "bool", v |-> v]

\* bool(value)
Truthy(x) ==
    IF x.t = "bool" THEN x.v
    ELSE IF x.t = "int" THEN x.v # 0
    ELSE x.v # <<>>

\* str(value)
Str(x) ==
    IF x.t = "bool" THEN StrBool(x.v)
    ELSE IF x.t = "int" THEN StrInt(x.v)
    ELSE x.v

KeyChars(key) ==
    CASE key = "precission" -> <<"p","r","e","c","i","s","s","i","o","n">>
      [] key = "overgridfactor" ->
            <<"o","v","e","r","g","r","i","d","f","a","c","t","o","r">>
      [] key = "do_density_correction" ->
            <<"d","o","_","d","e","n","s","i","t","y","_","c","o","r","r","e","c","t","i","o","n">>
      [] key = "do_intensity_scale" ->
            <<"d","o","_","i","n","t","e","n","s","i","t","y","_","s","c","a","l","e">>

\* ConfigParser.BOOLEAN_STATES
TrueTexts == {<<"1">>, <<"y","e","s">>, <<"t","r","u","e">>, <<"o","n">>}
FalseTexts == {<<"0">>, <<"n","o">>, <<"f","a","l","s","e">>, <<"o","f","f">>}

DigitValue(c) == (CHOOSE i \in 1..10 : Digits[i] = c) - 1
IsIntLiteral(text) ==
    /\ text # <<>>
    /\ \A i \in 1..Len(text) : \E d \in 1..10 : Digits[d] = text[i]
RECURSIVE IntOf(_)
IntOf(text) ==
    IF text = <<>> THEN 0
    ELSE 10 * IntOf(SubSeq(text, 1, Len(text) - 1)) + DigitValue(text[Len(text)])

\* recon.py:248-270: getboolean for the "do_" keys, else getint, else getfloat,
\* else the text (the texts of Configs hold no float literal).
ParseValue(key, text) ==
    IF Contains(KeyChars(key), <<"d","o","_">>)
    THEN IF Lower(text) \in TrueTexts THEN PyBool(TRUE)
         ELSE IF Lower(text) \in FalseTexts THEN PyBool(FALSE)
         ELSE PyStr(text)
    ELSE IF IsIntLiteral(text) THEN PyInt(IntOf(text))
    ELSE PyStr(text)

\* recon.py:238-270: a config file that is not found reads as no section.
ParseConfig(config) ==
    IF ~config.found THEN <<>>
    ELSE [section \in {"Data", "FFT", "Optimizer"} |->
             IF section = "Data"
             THEN [key \in DOMAIN config.Data |-> ParseValue(key, config.Data[key])]
             ELSE <<>>]

\* The config files of the runs.
PrecisionTexts ==
    {<<"s","i","n","g","l","e">>, <<"S","i","n","g","l","e">>,
     <<"d","o","u","b","l","e">>, <<"D","O","U","B","L","E">>,
     <<"h","a","l","f">>, <<"3","2">>, <<>>}
DensityTexts == {<<"T","r","u","e">>, <<"o","f","f">>, <<"m","a","y","b","e">>}
IntensityTexts == {<<"T","r","u","e">>, <<"F","a","l","s","e">>}

ConfigOf(prec, dens, inscale, overgrid) ==
    [found |-> TRUE,
     Data |-> [precission |-> prec, overgridfactor |-> overgrid,
               do_density_correction |-> dens, do_intensity_scale |-> inscale]]

Configs ==
    {ConfigOf(p, <<"T","r","u","e">>, <<"T","r","u","e">>, <<"2">>) :
        p \in PrecisionTexts}
    \cup {ConfigOf(p, d, <<"T","r","u","e">>, <<"2">>) :
        p \in {<<"s","i","n","g","l","e">>, <<"D","O","U","B","L","E">>},
        d \in DensityTexts}
    \cup {ConfigOf(<<"d","o","u","b","l","e">>, <<"o","f","f">>, i, o) :
        i \in IntensityTexts, o \in {<<"1">>, <<"2">>}}
    \cup {[found |-> FALSE, Data |-> <<>>],
          [found |-> TRUE, Data |-> [overgridfactor |-> <<"2">>]]}

\* --------------------------------------------------- setup_parameter_dict
Set(dict, key, value) == (key :> value) @@ dict

\* Faulty variant: any precision that is not "double" taken as single.
SelectDtypeLenient(precission) ==
    IF precission = <<"d","o","u","b","l","e">>
    THEN [DTYPE |-> "complex128", DTYPE_real |-> "float64"]
    ELSE [DTYPE |-> "complex64", DTYPE_real |-> "float32"]

\* recon.py:272-279 on the lower-cased precision text: the pair
\* (DTYPE, DTYPE_real), or None where the code raises ValueError.
SelectDtype(precission) ==
    IF precission = <<"s","i","n","g","l","e">>
    THEN [DTYPE |-> "complex64", DTYPE_real |-> "float32"]
    ELSE IF precission = <<"d","o","u","b","l","e">>
    THEN [DTYPE |-> "complex128", DTYPE_real |-> "float64"]
    ELSE None

\* linop.NUFFT(data_par, fft_par, trajectory): the gridding structure of a
\* trajectory on the oversampled grid (spec 4.2).
NUFFT(data_par, fft_par, trajectory) ==
    [gridding_mat |-> [trajectory |-> trajectory,
                       image_dim |-> data_par["image_dim"]]]

\* get_density_from_gridding(data_par, gridding_mat): one density per
\* (projection, read) pair, a function of the sample positions (spec 4.1).
get_density_from_gridding(data_par, gridding_mat) ==
    LET trajectory == gridding_mat.trajectory
    IN  NewArray(AllButLast(trajectory.shape),
                 LAMBDA idx : [density_at |->
                     [c \in 1..trajectory.shape[Len(trajectory.shape)] |->
                         trajectory.val[idx \o <<c>>]]])

\* np.sqrt(a)
Sqrt(a) == [shape |-> a.shape,
            val |-> [idx \in DOMAIN a.val |-> [sqrt_of |-> a.val[idx]]]]

\* np.ones(shape, dtype)
One == [one |-> TRUE]
Ones(shape, dtype) ==
    [shape |-> shape, val |-> [idx \in IndexSet(shape) |-> One], dtype |-> dtype]

\* Faulty variant: the weights scaled by the first raw sample.
DensityCorrectionOfData(data_par, fft_par, rawdata, trajectory) ==
    LET first == rawdata.val[[i \in 1..Len(rawdata.shape) |-> 1]].m
        weights == IF Truthy(data_par["do_density_correction"])
                   THEN Sqrt(get_density_from_gridding(
                            data_par, NUFFT(data_par, fft_par, trajectory).gridding_mat))
                   ELSE Ones(AllButLast(trajectory.shape), data_par["DTYPE_real"])
    IN  Set(fft_par, "dens_cor",
            [weights EXCEPT !.val = [idx \in DOMAIN weights.val |->
                                        [times |-> first, weight |-> weights.val[idx]]]])

\* recon.py:290-306: parameter["FFT"] with the density weights of the
\* trajectory, as square roots.
DensityCorrection(data_par, fft_par, rawdata, trajectory) ==
    IF Truthy(data_par["do_density_correction"])
    THEN LET FFT == NUFFT(data_par, fft_par, trajectory)
             with_mat == Set(fft_par, "gridding_matrix", FFT.gridding_mat)
         IN  Set(with_mat, "dens_cor",
                 Sqrt(get_density_from_gridding(data_par, with_mat["gridding_matrix"])))
    ELSE Set(fft_par, "dens_cor",
             Ones(AllButLast(trajectory.shape), data_par["DTYPE_real"]))

SetupFailed(error, events) ==
    [error |-> error, parameter |-> None, events |-> events]

\* recon.py:281-307, after the precision has been accepted.
SetupDims(parameter, dtype, rawdata, trajectory) ==
    IF Len(rawdata.shape) # 3
    THEN SetupFailed("ValueError", <<"parse_config", "select_dtype">>)
    ELSE IF "overgridfactor" \notin DOMAIN parameter["Data"]
    THEN SetupFailed("KeyError", <<"parse_config", "select_dtype">>)
    ELSE IF parameter["Data"]["overgridfactor"].t # "int"
    THEN SetupFailed("TypeError", <<"parse_config", "select_dtype">>)
    ELSE IF parameter["Data"]["overgridfactor"].v = 0
    THEN SetupFailed("ZeroDivisionError", <<"parse_config", "select_dtype">>)
    ELSE LET n_ch == rawdata.shape[1]
             n_spokes == rawdata.shape[2]
             num_reads == rawdata.shape[3]
             data == Set(Set(Set(Set(Set(Set(parameter["Data"],
                        "DTYPE", dtype.DTYPE),
                        "DTYPE_real", dtype.DTYPE_real),
                        "num_coils", n_ch),
                        "image_dim", num_reads \div parameter["Data"]["overgridfactor"].v),
                        "num_reads", num_reads),
                        "num_proj", n_spokes)
             dims == <<"parse_config", "select_dtype", "record_dims">>
         IN  IF "do_density_correction" \notin DOMAIN data
             THEN SetupFailed("KeyError", dims)
             ELSE [error |-> NoError,
                   parameter |->
                       [parameter EXCEPT
                           !["Data"] = data,
                           !["FFT"] = DensityCorrection(data, parameter["FFT"],
                                                        rawdata, trajectory)],
                   events |-> dims \o
                       (IF Truthy(data["do_density_correction"])
                        THEN <<"build_gridding", "density_compensation">>
                        ELSE <<"ones">>)]

\* setup_parameter_dict(configfile, rawdata, trajectory), config being the
\* content of the config file.
setup_parameter_dict(config, rawdata, trajectory) ==
    LET parameter == ParseConfig(config)
    IN  IF "Data" \notin DOMAIN parameter
           \/ "precission" \notin DOMAIN parameter["Data"]
        THEN SetupFailed("KeyError", <<"parse_config">>)
        ELSE IF parameter["Data"]["precission"].t # "str"
        THEN SetupFailed("AttributeError", <<"parse_config">>)
        ELSE LET dtype == SelectDtype(Lower(parameter["Data"]["precission"].v))
             IN  IF dtype = None
                 THEN SetupFailed("ValueError", <<"parse_config">>)
                 ELSE SetupDims(parameter, dtype, rawdata, trajectory)
\* ----------------------------------------------------------- _decor_noise
\* The position of idx in the C-ordered flattening of an array of this shape.
RECURSIVE Ravel(_, _)
Ravel(shape, idx) ==
    IF shape = <<>> THEN 0
    ELSE LET n == Len(shape)
         IN  Ravel(SubSeq(shape, 1, n - 1), SubSeq(idx, 1, n - 1)) * shape[n]
             + (idx[n] - 1)

RECURSIVE Size(_)
Size(shape) == IF shape = <<>> THEN 1 ELSE Head(shape) * Size(Tail(shape))

\* np.reshape(a, shape) of an array with as many entries.
Reshape(a, shape) ==
    [shape |-> shape,
     val |-> [idx \in IndexSet(shape) |->
                 a.val[CHOOSE old \in DOMAIN a.val :
                           Ravel(a.shape, old) = Ravel(shape, idx)]]]

\* invL @ data for the lower-triangular invL: row c of the product combines
\* the rows 1..c of data.
Whiten(data) ==
    [shape |-> data.shape,
     val |-> [idx \in DOMAIN data.val |->
                 [m |-> [c \in 1..idx[1] |-> data.val[<<c, idx[2]>>].m[1]],
                  white |-> TRUE,
                  w |-> data.val[idx].w]]]

\* _decor_noise(data, noise, par), recon.py:354-367.  np.cov of a one-coil
\* scan is 0-dimensional and that of a constant scan is the zero matrix:
\* np.linalg.cholesky raises LinAlgError for both.
_decor_noise(data, noise, par) ==
    IF noise = None THEN [error |-> NoError, data |-> data]
    ELSE IF noise.shape[1] = 1 \/ noise.constant
    THEN [error |-> "LinAlgError", data |-> None]
    ELSE IF Size(data.shape) % par["num_coils"] # 0
    THEN [error |-> "ValueError", data |-> None]
    ELSE LET flat == Reshape(data, <<par["num_coils"],
                                     Size(data.shape) \div par["num_coils"]>>)
         IN  IF noise.shape[1] # flat.shape[1]
             THEN [error |-> "ValueError", data |-> None]
             ELSE [error |-> NoError,
                   data |-> Reshape(Whiten(flat),
                                    <<par["num_coils"], par["num_proj"],
                                      par["num_reads"]>>)]

\* ------------------------------------------------ the rest of the package
\* estimate_coil_sensitivities(data, trajectory, par): the maps of one
\* reconstruction, computed from the data and the weights it is given (spec 4.3).
estimate_coil_sensitivities(data, trajectory, par) ==
    [num_coils |-> par["Data"]["num_coils"],
     image_dim |-> par["Data"]["image_dim"],
     estimated_from |-> data,
     dens_cor |-> par["FFT"]["dens_cor"]]

\* linop.MRIImagingModel(parameter, trajectory) handed to solver.CGReco
\* by set_operator (spec 4.4).
MRIImagingModel(par, trajectory, coil_maps) ==
    [coils |-> coil_maps, dens_cor |-> par["FFT"]["dens_cor"],
     trajectory_shape |-> trajectory.shape]

\* cgs.optimize(data): one image of the configured precision (spec 4.5, 6).
optimize(operator, data_par, data) ==
    [shape |-> <<data_par["image_dim"], data_par["image_dim"]>>,
     dtype |-> data_par["DTYPE"]]

\* a * b for one sample and one weight: a * 1.0 is a.
Times(a, b) == IF b = One THEN a ELSE [a EXCEPT !.w = Append(@, b)]

\* Faulty variant: the data handed on without the weights.
MultiplyForgotten(data, weights) == data

\* kspace_data * dens_cor with numpy broadcasting of the trailing axes.
Multiply(data, weights) ==
    [shape |-> data.shape,
     val |-> [idx \in DOMAIN data.val |->
                 Times(data.val[idx],
                       weights.val[SubSeq(idx, Len(idx) - Len(weights.shape) + 1,
                                          Len(idx))])]]

Broadcasts(data, weights) ==
    /\ Len(weights.shape) <= Len(data.shape)
    /\ \A i \in 1..Len(weights.shape) :
          LET d == data.shape[Len(data.shape) - Len(weights.shape) + i]
          IN  weights.shape[i] = d \/ weights.shape[i] = 1 \/ d = 1
\* ------------------------------------------------------------ save_to_file
\* recon.py:35: the module-level DTYPE that create_dataset is given.
DTYPE == "complex64"

\* The path p names, seen from the directory cwd.
Resolve(cwd, p) ==
    IF p # <<>> /\ p[1] = Sep THEN normpath(p) ELSE normpath(cwd \o <<Sep>> \o p)

OutputDir == <<".","/","o","u","t","p","u","t">>

\* recon.py:336-341
ResultFileName(data_par, args) ==
    <<"C","G","_","r","e","c","o","_","i","n","s","c","a","l","e","_">>
    \o Str(data_par["do_intensity_scale"])
    \o <<"_","d","e","n","s","c","o","r","_">>
    \o Str(data_par["do_density_correction"])
    \o <<"_","r","e","d","u","c","t","i","o","n","_">>
    \o StrInt(args.undesampling_factor)
    \o <<".","h","5">>

\* save_to_file(result, data_par, args) on the file system fs = [cwd, dirs,
\* files]; files maps a path to the datasets of the file.
save_to_file(result, data_par, args, fs) ==
    LET outdir == IF Contains(args.pathtofile, Heart) THEN <<"/","h","e","a","r","t">>
                  ELSE IF Contains(args.pathtofile, Brain) THEN <<"/","b","r","a","i","n">>
                  ELSE <<>>
        dirs == fs.dirs \cup {Resolve(fs.cwd, OutputDir),
                              Resolve(fs.cwd, OutputDir \o outdir)}
        cwd == fs.cwd
        there == Resolve(fs.cwd, OutputDir \o outdir)
    IN  IF ~({"do_intensity_scale", "do_density_correction"} \subseteq DOMAIN data_par)
        THEN [error |-> "KeyError",
              fs |-> [cwd |-> there, dirs |-> dirs, files |-> fs.files]]
        ELSE LET path == Resolve(there, ResultFileName(data_par, args))
                 dataset == [name |-> "CG_reco", shape |-> result.shape,
                             dtype |-> DTYPE]
             IN  [error |-> NoError,
                  fs |-> [cwd |-> cwd, dirs |-> dirs,
                          files |-> (path :> dataset) @@ fs.files]]

\* ------------------------------------------------------------------ state
VARIABLES
    pc,             \* the statement of _run_reco (or of the calling script) reached
    error,          \* the exception that ended the run, NoError while none
    args,           \* the parsed command line
    h5_dataset,     \* the data file found at args.pathtofile
    config,         \* the config file found at args.configfile
    kspace_data, trajectory, noise,
    parameter,
    coil_maps,      \* what estimate_coil_sensitivities left in the parameter dict
    MRImagingOperator,
    solver_data,    \* the data argument of cgs.optimize
    recon_result,
    trace,          \* the steps performed so far, in order
    fs,             \* working directory and output files
    other           \* the second run of a pair of runs: its data and parameters

vars == <<pc, error, args, h5_dataset, config, kspace_data, trajectory, noise,
          parameter, coil_maps, MRImagingOperator, solver_data, recon_result,
          trace, fs, other>>

StartDir == <<"/","w">>

Init ==
    /\ pc = "start"
    /\ error = NoError
    /\ args = None
    /\ h5_dataset = None
    /\ config = None
    /\ kspace_data = None
    /\ trajectory = None
    /\ noise = None
    /\ parameter = None
    /\ coil_maps = None
    /\ MRImagingOperator = None
    /\ solver_data = None
    /\ recon_result = None
    /\ trace = <<>>
    /\ fs = [cwd |-> StartDir, dirs |-> {}, files |-> <<>>]
    /\ other = None

Raise(exception) == pc' = "error" /\ error' = exception

\* ------------------------------------------------------------- _run_reco
\* recon.py:372-375
ReadData ==
    /\ pc = "start"
    /\ \E pathtofile \in Paths, undesampling_factor \in AccFactors,
          h5 \in H5Files({0}) \cup {LongScan, NoFile} :
          LET r == read_data(pathtofile, undesampling_factor, h5)
          IN  /\ args' = [pathtofile |-> pathtofile,
                          undesampling_factor |-> undesampling_factor]
              /\ h5_dataset' = h5
              /\ trace' = trace \o r.events
              /\ kspace_data' = r.rawdata
              /\ trajectory' = r.trajectory
              /\ noise' = r.noise_scan
              /\ IF r.error # NoError THEN Raise(r.error)
                 ELSE pc' = "read" /\ error' = error
    /\ UNCHANGED <<config, parameter, coil_maps, MRImagingOperator, solver_data,
                   recon_result, fs, other>>

\* recon.py:377-380
SetupParameter ==
    /\ pc = "read"
    /\ \E cfg \in Configs :
          LET r == setup_parameter_dict(cfg, kspace_data, trajectory)
          IN  /\ config' = cfg
              /\ trace' = trace \o r.events
              /\ parameter' = r.parameter
              /\ IF r.error # NoError THEN Raise(r.error)
                 ELSE pc' = "setup" /\ error' = error
    /\ UNCHANGED <<args, h5_dataset, kspace_data, trajectory, noise, coil_maps,
                   MRImagingOperator, solver_data, recon_result, fs, other>>

\* recon.py:382-385
DecorNoise ==
    /\ pc = "setup"
    /\ LET r == _decor_noise(kspace_data, noise, parameter["Data"])
       IN  /\ trace' = Append(trace, "decor_noise")
           /\ IF r.error # NoError
              THEN Raise(r.error) /\ UNCHANGED kspace_data
              ELSE pc' = "decorrelated" /\ error' = error /\ kspace_data' = r.data
    /\ UNCHANGED <<args, h5_dataset, config, trajectory, noise, parameter,
                   coil_maps, MRImagingOperator, solver_data, recon_result, fs, other>>

\* Faulty variant: the coil maps estimated again after the operator has them.
EstimateCoilsAgain ==
    /\ pc \in {"decorrelated", "operator_built"}
    /\ Count(trace, "estimate_coils") < 2
    /\ coil_maps' = estimate_coil_sensitivities(kspace_data, trajectory, parameter)
    /\ trace' = Append(trace, "estimate_coils")
    /\ pc' = IF pc = "decorrelated" THEN "coils_estimated" ELSE pc
    /\ UNCHANGED <<error, args, h5_dataset, config, kspace_data, trajectory, noise,
                   parameter, MRImagingOperator, solver_data, recon_result, fs, other>>

\* recon.py:387-390
EstimateCoils ==
    /\ pc = "decorrelated"
    /\ coil_maps' = estimate_coil_sensitivities(kspace_data, trajectory, parameter)
    /\ trace' = Append(trace, "estimate_coils")
    /\ pc' = "coils_estimated"
    /\ UNCHANGED <<error, args, h5_dataset, config, kspace_data, trajectory, noise,
                   parameter, MRImagingOperator, solver_data, recon_result, fs, other>>

\* recon.py:392-396
BuildOperator ==
    /\ pc = "coils_estimated"
    /\ MRImagingOperator' = MRIImagingModel(parameter, trajectory, coil_maps)
    /\ trace' = Append(trace, "build_operator")
    /\ pc' = "operator_built"
    /\ UNCHANGED <<error, args, h5_dataset, config, kspace_data, trajectory, noise,
                   parameter, coil_maps, solver_data, recon_result, fs, other>>

\* recon.py:401-403
Solve ==
    /\ pc = "operator_built"
    /\ IF ~Broadcasts(kspace_data, parameter["FFT"]["dens_cor"])
       THEN /\ Raise("ValueError")
            /\ UNCHANGED <<solver_data, recon_result, trace>>
       ELSE LET data == Multiply(kspace_data, parameter["FFT"]["dens_cor"])
            IN  /\ solver_data' = data
                /\ recon_result' = optimize(MRImagingOperator, parameter["Data"], data)
                /\ trace' = trace \o <<"scale_data", "optimize">>
                /\ pc' = "solved"
                /\ error' = error
    /\ UNCHANGED <<args, h5_dataset, config, kspace_data, trajectory, noise,
                   parameter, coil_maps, MRImagingOperator, fs, other>>

\* recon.py:405: save_to_file(recon_result, args) gives the three-parameter
\* function two arguments, which raises TypeError before its body runs.
StoreResult ==
    /\ pc = "solved"
    /\ Raise("TypeError")
    /\ UNCHANGED <<args, h5_dataset, config, kspace_data, trajectory, noise,
                   parameter, coil_maps, MRImagingOperator, solver_data,
                   recon_result, trace, fs, other>>

Next ==
    \/ ReadData
    \/ SetupParameter
    \/ DecorNoise
    \/ EstimateCoils
    \/ BuildOperator
    \/ Solve
    \/ StoreResult

Spec == Init /\ [][Next]_vars

\* ------------------------------------------- a script calling the functions
\* save_to_file(result, data_par, args) called as its signature asks, after
\* the steps of _run_reco.
SaveResult ==
    /\ pc = "solved"
    /\ LET r == save_to_file(recon_result, parameter["Data"], args, fs)
       IN  /\ fs' = r.fs
           /\ trace' = Append(trace, "save_to_file")
           /\ IF r.error # NoError THEN Raise(r.error)
              ELSE pc' = "saved" /\ error' = error
    /\ UNCHANGED <<args, h5_dataset, config, kspace_data, trajectory, noise,
                   parameter, coil_maps, MRImagingOperator, solver_data,
                   recon_result, other>>

NextScript ==
    \/ ReadData
    \/ SetupParameter
    \/ DecorNoise
    \/ EstimateCoils
    \/ BuildOperator
    \/ Solve
    \/ SaveResult

SpecScript == Init /\ [][NextScript]_vars

\* --------------------------------------------------------- a pair of runs
\* Two runs on files that differ in the values of the raw samples only.
PairReadData ==
    /\ pc = "start"
    /\ \E pathtofile \in Paths, undesampling_factor \in AccFactors,
          h5 \in H5Files({0}) :
          LET r == read_data(pathtofile, undesampling_factor, h5)
              r2 == read_data(pathtofile, undesampling_factor,
                              [h5 EXCEPT !.variant = 1])
          IN  /\ args' = [pathtofile |-> pathtofile,
                          undesampling_factor |-> undesampling_factor]
              /\ h5_dataset' = h5
              /\ trace' = trace \o r.events
              /\ kspace_data' = r.rawdata
              /\ trajectory' = r.trajectory
              /\ noise' = r.noise_scan
              /\ other' = [error |-> r2.error, kspace_data |-> r2.rawdata,
                           trajectory |-> r2.trajectory, parameter |-> None]
              /\ IF r.error # NoError THEN Raise(r.error)
                 ELSE pc' = "read" /\ error' = error
    /\ UNCHANGED <<config, parameter, coil_maps, MRImagingOperator, solver_data,
                   recon_result, fs>>

PairSetupParameter ==
    /\ pc = "read"
    /\ other.error = NoError
    /\ \E cfg \in Configs :
          LET r == setup_parameter_dict(cfg, kspace_data, trajectory)
              r2 == setup_parameter_dict(cfg, other.kspace_data, other.trajectory)
          IN  /\ config' = cfg
              /\ trace' = trace \o r.events
              /\ parameter' = r.parameter
              /\ other' = [other EXCEPT !.error = r2.error,
                                        !.parameter = r2.parameter]
              /\ IF r.error # NoError THEN Raise(r.error)
                 ELSE pc' = "setup" /\ error' = error
    /\ UNCHANGED <<args, h5_dataset, kspace_data, trajectory, noise, coil_maps,
                   MRImagingOperator, solver_data, recon_result, fs>>

NextPair == PairReadData \/ PairSetupParameter

SpecPair == Init /\ [][NextPair]_vars

\* ================================================================= claims

\* The projections of the file that the samples of a raw-data array come from.
KeptSpokes(data) == {(data.val[idx].m[1] % 1000) \div 10 : idx \in DOMAIN data.val}

\* The same for a normalised trajectory read from a "spokes" file, whose
\* second component at (read r, projection p) is -(r + p).
KeptTrajectorySpokes(traj) ==
    {-traj.val[idx].num - idx[2] : idx \in {i \in DOMAIN traj.val : i[3] = 2}}

EveryKth(k, n) == {p \in 1..n : (p - 1) % k = 0}

HeartSelection(k, n) ==
    IF k = 2 THEN 1..Min(n, 33)
    ELSE IF k = 3 THEN 1..Min(n, 22)
    ELSE IF k = 4 THEN 1..Min(n, 11)
    ELSE 1..n

SelectionOf(path, k, n) ==
    IF Contains(normpath(path), Heart) THEN HeartSelection(k, n) ELSE EveryKth(k, n)

HasRun == pc # "start"
Accel == args.undesampling_factor

\* C1: the data given to cgs.optimize is the k-space data of the solve call
\* times the square-root density weight, taken exactly once, in the step
\* right before optimize and after the coil estimation; the data given to
\* estimate_coil_sensitivities, the k-space data itself and dens_cor carry
\* no weight.
C1_DataScaledOnce ==
    /\ kspace_data # None =>
          \A idx \in DOMAIN kspace_data.val : kspace_data.val[idx].w = <<>>
    /\ coil_maps # None =>
          /\ \A idx \in DOMAIN coil_maps.estimated_from.val :
                coil_maps.estimated_from.val[idx].w = <<>>
          /\ coil_maps.dens_cor = parameter["FFT"]["dens_cor"]
    /\ (parameter # None /\ HasRun /\ error = NoError) =>
          \A i \in DOMAIN parameter["FFT"]["dens_cor"].val :
             LET e == parameter["FFT"]["dens_cor"].val[i]
             IN  e = One \/ DOMAIN e = {"sqrt_of"}
    /\ solver_data # None =>
          /\ solver_data.shape = kspace_data.shape
          /\ \A idx \in DOMAIN solver_data.val :
                LET weight == parameter["FFT"]["dens_cor"].val[<<idx[2], idx[3]>>]
                IN  /\ solver_data.val[idx].m = kspace_data.val[idx].m
                    /\ solver_data.val[idx].w =
                          IF Truthy(parameter["Data"]["do_density_correction"])
                          THEN <<weight>> ELSE <<>>
          /\ Count(trace, "scale_data") = 1
          /\ Position(trace, "scale_data") = Position(trace, "optimize") - 1
          /\ Position(trace, "estimate_coils") < Position(trace, "scale_data")
          /\ MRImagingOperator.dens_cor = parameter["FFT"]["dens_cor"]

C1_Witness ==
    /\ pc = "solved"
    /\ h5_dataset.traj = "spokes"
    /\ Truthy(parameter["Data"]["do_density_correction"])
    /\ noise # None
    /\ \A idx \in DOMAIN solver_data.val : Len(solver_data.val[idx].w) = 1

\* C2: when the (projection, read) counts of trajectory and raw data
\* disagree, read_data fails and nothing numerical has been done by then.
SampleCountsDisagree ==
    /\ h5_dataset.exists
    /\ Accel >= 1
    /\ <<Cardinality(SelectionOf(args.pathtofile, Accel, h5_dataset.proj)),
         h5_dataset.reads>>
       # <<Cardinality(SelectionOf(args.pathtofile, Accel, h5_dataset.tproj)),
           h5_dataset.treads>>
C2_MismatchFailsFirst ==
    (HasRun /\ SampleCountsDisagree) =>
        /\ pc = "error"
        /\ error = "AssertionError"
        /\ \A i \in 1..Len(trace) :
              trace[i] \notin {"normalize_trajectory", "parse_config",
                               "density_compensation", "estimate_coils", "optimize"}

\* C3: a precision that is neither "single" nor "double" in any casing makes
\* setup_parameter_dict raise before gridding, density compensation and
\* solve; "single" selects complex64/float32, "double" complex128/float64.
SameIgnoringCase(a, b) ==
    /\ Len(a) = Len(b)
    /\ \A i \in 1..Len(a) :
          \/ a[i] = b[i]
          \/ \E j \in 1..26 : {a[i], b[i]} = {UpperChars[j], LowerChars[j]}
PrecisionIs(word) ==
    /\ config.found
    /\ "precission" \in DOMAIN config.Data
    /\ SameIgnoringCase(config.Data["precission"], word)
C3_PrecisionChecked ==
    config # None =>
        IF PrecisionIs(<<"s","i","n","g","l","e">>)
        THEN parameter # None =>
                /\ parameter["Data"]["DTYPE"] = "complex64"
                /\ parameter["Data"]["DTYPE_real"] = "float32"
        ELSE IF PrecisionIs(<<"d","o","u","b","l","e">>)
        THEN parameter # None =>
                /\ parameter["Data"]["DTYPE"] = "complex128"
                /\ parameter["Data"]["DTYPE_real"] = "float64"
        ELSE /\ pc = "error"
             /\ error \in {"ValueError", "AttributeError", "KeyError"}
             /\ parameter = None
             /\ \A i \in 1..Len(trace) :
                   trace[i] \notin {"build_gridding", "density_compensation",
                                    "ones", "optimize"}

C3_Witness ==
    /\ config # None
    /\ PrecisionIs(<<"h","a","l","f">>)
    /\ pc = "error"
    /\ error = "ValueError"

\* C4: every component of the trajectory read_data returns lies in
\* [-0.5, 0.5] and the largest has magnitude 0.5, the all-zero trajectory
\* included.
InNormalizedRange(q) ==
    /\ DOMAIN q = {"num", "den"}
    /\ 2 * Abs(q.num) <= q.den
C4_TrajectoryNormalized ==
    (pc = "read") =>
        /\ \A idx \in DOMAIN trajectory.val : InNormalizedRange(trajectory.val[idx])
        /\ \/ h5_dataset.traj = "zero"
           \/ \E idx \in DOMAIN trajectory.val :
                 2 * Abs(trajectory.val[idx].num) = trajectory.val[idx].den

\* C5: the raw data read_data returns is indexed (coil, projection, read),
\* for one coil or one projection too, and num_coils, num_proj and
\* num_reads are those extents up to the solve call.
C5_ThreeAxes ==
    (kspace_data # None /\ Accel >= 1) =>
        /\ kspace_data.shape =
              <<h5_dataset.coils,
                Cardinality(SelectionOf(args.pathtofile, Accel, h5_dataset.proj)),
                h5_dataset.reads>>
        /\ (parameter # None) =>
              kspace_data.shape = <<parameter["Data"]["num_coils"],
                                    parameter["Data"]["num_proj"],
                                    parameter["Data"]["num_reads"]>>

\* C6: two runs with the same config and trajectory whose raw samples differ
\* get the same dens_cor; with the density correction off dens_cor is 1 for
\* each (projection, read) pair.
C6_WeightsFromTrajectory ==
    (pc = "setup" /\ other # None) =>
        /\ other.error = NoError
        /\ other.trajectory = trajectory
        /\ parameter["FFT"]["dens_cor"] = other.parameter["FFT"]["dens_cor"]
        /\ ~Truthy(parameter["Data"]["do_density_correction"]) =>
              /\ parameter["FFT"]["dens_cor"].shape =
                    <<Cardinality(SelectionOf(args.pathtofile, Accel, h5_dataset.tproj)),
                      h5_dataset.treads>>
              /\ \A idx \in IndexSet(parameter["FFT"]["dens_cor"].shape) :
                    parameter["FFT"]["dens_cor"].val[idx] = One

C6_Witness ==
    /\ pc = "setup"
    /\ other # None
    /\ Truthy(parameter["Data"]["do_density_correction"])
    /\ h5_dataset.traj = "spokes"
    /\ \A idx \in DOMAIN kspace_data.val :
          kspace_data.val[idx] # other.kspace_data.val[idx]

\* C7: the dataset save_to_file writes has the configured precision.
C7_SavedPrecision ==
    (pc = "saved") =>
        \A path \in DOMAIN fs.files :
            fs.files[path].dtype = parameter["Data"]["DTYPE"]

StageOrder ==
    <<"open_file", "select_spokes", "squeeze", "normalize_trajectory",
      "check_shapes", "parse_config", "select_dtype", "record_dims",
      "build_gridding", "density_compensation", "ones", "decor_noise",
      "estimate_coils", "build_operator", "scale_data", "optimize">>
C9_StagesInOrder ==
    /\ \A i \in 1..Len(trace) : Count(StageOrder, trace[i]) = 1
    /\ \A i, j \in 1..Len(trace) :
          i < j => Position(StageOrder, trace[i]) < Position(StageOrder, trace[j])
    /\ coil_maps # None =>
          /\ coil_maps.estimated_from = kspace_data
          /\ \A idx \in DOMAIN kspace_data.val :
                kspace_data.val[idx].white = (noise # None)
          /\ Count(trace, "estimate_coils") = 1
          /\ Position(trace, "decor_noise") < Position(trace, "estimate_coils")
    /\ MRImagingOperator # None => MRImagingOperator.coils = coil_maps

C9_Witness ==
    /\ pc = "solved"
    /\ noise # None
    /\ MRImagingOperator.coils.estimated_from = kspace_data

\* C10: a run whose read, setup and solve succeed stores the result: a
\* dataset "CG_reco" in a file under ./output, the working directory
\* afterwards being what it was.
C10_ResultStored ==
    (Count(trace, "optimize") = 1 /\ pc # "solved") =>
        /\ error = NoError
        /\ fs.cwd = StartDir
        /\ \E path \in DOMAIN fs.files :
              /\ fs.files[path].name = "CG_reco"
              /\ Contains(path, <<"/","o","u","t","p","u","t","/">>)
====
